---- MODULE Spec2Model ----
(***************************************************************************)
(* hot_redis: local-looking List, Set and Dict handles whose state lives   *)
(* in a remote Redis store.  The model follows src/hot_redis.py (Python 2): *)
(* the process-wide pipeline, the attribute-reflection command router,     *)
(* the element type tag of each handle, the end of a handle's life, and    *)
(* the List, Set and Dict operations.                                      *)
(*                                                                         *)
(* The Redis server and the redis-py client are collaborators; their       *)
(* commands are modelled by what Redis documents for them.  A redis-py     *)
(* Pipeline object is taken to be truthy, every command staged on it       *)
(* returns the Pipeline object itself, and a registered Script called      *)
(* without a client runs on the connection it was registered with.         *)
(* atoms.lua is not part of the sources: the six catalog procedures are    *)
(* modelled from their description in the specification.                   *)
(***************************************************************************)
EXTENDS Integers, Sequences, FiniteSets, TLC

VARIABLES
    store,      \* remote data: store.L a list, store.S and store.B sets, of wire
                \* strings; store.D a hash of wire strings
    tag,        \* tag[h]: element type tag of handle h ("None" when unset)
    active,     \* _pipeline is not None
    queue,      \* command stack of the pipeline object _pipeline refers to
    depth,      \* number of `with pipeline():` blocks the process is inside
    trips,      \* history: store round trips since the outermost batch was entered
    pc,         \* where the in-progress Set.update with a remote operand stands
    pending,    \* members read from the remote operand, not yet sent
    last        \* the last call: operation, arguments, exception, returned object

vars == <<store, tag, active, queue, depth, trips, pc, pending, last>>

(***************************************************************************)
(* Bounds of the model.                                                    *)
(***************************************************************************)
MaxLen == 3         \* longest list built by direct calls
MaxQueue == 3       \* most router calls issued inside one batch
MaxDepth == 2       \* deepest nesting of `with pipeline():`
MaxOperands == 2    \* most operands given to one Set operation

(***************************************************************************)
(* Python values.  A scalar is an int n, the float n.0 or a str s.         *)
(***************************************************************************)
IntV(n) == [t |-> "int", n |-> n, s |-> ""]
FloatV(n) == [t |-> "float", n |-> n, s |-> ""]
StrV(s) == [t |-> "str", n |-> 0, s |-> s]

Digits == <<"0", "1", "2", "3", "4", "5", "6", "7", "8", "9">>
IntStr(n) == Digits[n + 1]
FloatStr(n) == IntStr(n) \o ".0"
IsIntText(w) == \E n \in 0..9 : IntStr(n) = w
IsFloatText(w) == \E n \in 0..9 : FloatStr(n) = w
IntOfText(w) == CHOOSE n \in 0..9 : IntStr(n) = w
FloatOfText(w) == CHOOSE n \in 0..9 : FloatStr(n) = w

\* redis-py encodes every argument as text: str(int), repr(float), the str itself.
Encode(v) ==
    CASE v.t = "int" -> IntStr(v.n)
      [] v.t = "float" -> FloatStr(v.n)
      [] OTHER -> v.s

EncodeSeq(xs) == [i \in 1..Len(xs) |-> Encode(xs[i])]
EncodeSet(vs) == {Encode(v) : v \in vs}

\* Python objects that travel through the router: None, a scalar, a list, a set,
\* the Pipeline object, or a raised exception.
NoScalar == StrV("")
Obj(k, v, l, s, e) == [k |-> k, v |-> v, l |-> l, s |-> s, e |-> e]
None == Obj("none", NoScalar, <<>>, {}, "")
Val(v) == Obj("val", v, <<>>, {}, "")
ListObj(l) == Obj("list", NoScalar, l, {}, "")
SetObj(s) == Obj("set", NoScalar, <<>>, s, "")
Pipe == Obj("pipe", NoScalar, <<>>, {}, "")
Exc(e) == Obj("exc", NoScalar, <<>>, {}, e)
IsExc(o) == o.k = "exc"

(***************************************************************************)
(* The store's native commands.  A command is a record; Exec gives the     *)
(* store after it and Reply the raw reply redis-py hands back.             *)
(***************************************************************************)
Cmd(name, key, i, j, ws, keys) ==
    [cmd |-> name, key |-> key, i |-> i, j |-> j, ws |-> ws, keys |-> keys]

\* A Redis index: negative counts from the end.  Result is 1-based, or out of 1..n.
Pos(n, i) == IF i < 0 THEN n + i + 1 ELSE i + 1

SeqToSet(q) == {q[i] : i \in 1..Len(q)}

\* LRANGE key start stop (both ends inclusive, negative from the end, clamped).
LRange(l, start, stop) ==
    LET n == Len(l)
        a0 == IF start < 0 THEN n + start ELSE start
        b0 == IF stop < 0 THEN n + stop ELSE stop
        a == IF a0 < 0 THEN 0 ELSE a0
        b == IF b0 >= n THEN n - 1 ELSE b0
    IN IF a > b \/ a >= n THEN <<>> ELSE SubSeq(l, a + 1, b + 1)

Reverse(l) == [i \in 1..Len(l) |-> l[Len(l) + 1 - i]]

RECURSIVE Repeat(_, _)
Repeat(l, n) == IF n <= 0 THEN <<>> ELSE l \o Repeat(l, n - 1)

RemoveAt(l, p) == SubSeq(l, 1, p - 1) \o SubSeq(l, p + 1, Len(l))

RECURSIVE InterKeys(_, _)
InterKeys(st, keys) ==
    IF Len(keys) = 1 THEN st[keys[1]] ELSE st[keys[1]] \cap InterKeys(st, Tail(keys))

RECURSIVE UnionKeys(_, _)
UnionKeys(st, keys) ==
    IF keys = <<>> THEN {} ELSE st[keys[1]] \cup UnionKeys(st, Tail(keys))

DiffKeys(st, keys) == st[keys[1]] \ UnionKeys(st, Tail(keys))

\* A hash: each field holds <<>> when it is absent, <<w>> when it stores w.
DictFields == {"a", "b"}
NoFields == [f \in DictFields |-> <<>>]

\* HMSET key field value [field value ...]
RECURSIVE HMSet(_, _)
HMSet(d, ws) ==
    IF Len(ws) < 2 THEN d
    ELSE HMSet([d EXCEPT ![ws[1]] = <<ws[2]>>], Tail(Tail(ws)))

\* The catalog procedures of atoms.lua, as the specification describes them.
\* list_insert puts the value at the index, a negative index counted from the
\* end of the list it leaves (so that it undoes list_pop at the same index);
\* an index out of range is clamped to the nearer end.
ListInsertScript(l, i, w) ==
    LET n == Len(l)
        p0 == IF i < 0 THEN n + i + 1 ELSE i
        p == IF p0 < 0 THEN 0 ELSE IF p0 > n THEN n ELSE p0
    IN SubSeq(l, 1, p) \o <<w>> \o SubSeq(l, p + 1, n)

ListPopScript(l, i) ==
    IF Pos(Len(l), i) \in 1..Len(l) THEN RemoveAt(l, Pos(Len(l), i)) ELSE l

ListPopReply(l, i) ==
    IF Pos(Len(l), i) \in 1..Len(l) THEN Val(StrV(l[Pos(Len(l), i)])) ELSE None

ListReverseScript(l) == Reverse(l)

ListMultiplyScript(l, n) == Repeat(l, n)

SetIntersectionUpdateScript(s, ws) == s \cap SeqToSet(ws)

SetDifferenceUpdateScript(s, ws) == s \ SeqToSet(ws)

IsScript(name) ==
    name \in {"list_insert", "list_pop", "list_reverse", "list_multiply",
              "set_intersection_update", "set_difference_update"}

\* An error reply: redis-py raises ResponseError and the store is unchanged.
Rejected(st, c) ==
    \/ c.cmd \in {"rpush", "sadd"} /\ c.ws = <<>>
    \/ c.cmd = "lset" /\ Pos(Len(st[c.key]), c.i) \notin 1..Len(st[c.key])

Exec(st, c) ==
    IF Rejected(st, c) THEN st
    ELSE CASE c.cmd = "rpush" -> [st EXCEPT ![c.key] = @ \o c.ws]
           [] c.cmd = "lpop" -> [st EXCEPT ![c.key] = IF @ = <<>> THEN @ ELSE Tail(@)]
           [] c.cmd = "rpop" ->
                [st EXCEPT ![c.key] = IF @ = <<>> THEN @ ELSE SubSeq(@, 1, Len(@) - 1)]
           [] c.cmd = "lset" -> [st EXCEPT ![c.key][Pos(Len(st[c.key]), c.i)] = c.ws[1]]
           [] c.cmd = "sadd" -> [st EXCEPT ![c.key] = @ \cup SeqToSet(c.ws)]
           [] c.cmd = "srem" -> [st EXCEPT ![c.key] = @ \ SeqToSet(c.ws)]
           [] c.cmd = "delete" -> [st EXCEPT ![c.key] = IF c.key = "L" THEN <<>> ELSE {}]
           [] c.cmd = "sinterstore" -> [st EXCEPT ![c.key] = InterKeys(st, c.keys)]
           [] c.cmd = "sdiffstore" -> [st EXCEPT ![c.key] = DiffKeys(st, c.keys)]
           [] c.cmd = "hsetnx" ->
                [st EXCEPT ![c.key][c.ws[1]] = IF @ = <<>> THEN <<c.ws[2]>> ELSE @]
           [] c.cmd = "hset" -> [st EXCEPT ![c.key][c.ws[1]] = <<c.ws[2]>>]
           [] c.cmd = "hmset" -> [st EXCEPT ![c.key] = HMSet(@, c.ws)]
           [] c.cmd = "hdel" -> [st EXCEPT ![c.key][c.ws[1]] = <<>>]
           [] c.cmd = "list_insert" ->
                [st EXCEPT ![c.key] = ListInsertScript(@, c.i, c.ws[1])]
           [] c.cmd = "list_pop" -> [st EXCEPT ![c.key] = ListPopScript(@, c.i)]
           [] c.cmd = "list_reverse" -> [st EXCEPT ![c.key] = ListReverseScript(@)]
           [] c.cmd = "list_multiply" -> [st EXCEPT ![c.key] = ListMultiplyScript(@, c.i)]
           [] c.cmd = "set_intersection_update" ->
                [st EXCEPT ![c.key] = SetIntersectionUpdateScript(@, c.ws)]
           [] c.cmd = "set_difference_update" ->
                [st EXCEPT ![c.key] = SetDifferenceUpdateScript(@, c.ws)]
           [] OTHER -> st

StrList(ws) == ListObj([i \in 1..Len(ws) |-> StrV(ws[i])])
StrSet(ws) == SetObj({StrV(w) : w \in ws})
IntReply(n) == Val(IntV(n))

Reply(st, c) ==
    IF Rejected(st, c) THEN Exc("ResponseError")
    ELSE CASE c.cmd = "rpush" -> IntReply(Len(st[c.key]) + Len(c.ws))
           [] c.cmd = "lpop" ->
                IF st[c.key] = <<>> THEN None ELSE Val(StrV(Head(st[c.key])))
           [] c.cmd = "rpop" ->
                IF st[c.key] = <<>> THEN None ELSE Val(StrV(st[c.key][Len(st[c.key])]))
           [] c.cmd = "llen" -> IntReply(Len(st[c.key]))
           [] c.cmd = "lrange" -> StrList(LRange(st[c.key], c.i, c.j))
           [] c.cmd = "lindex" ->
                IF Pos(Len(st[c.key]), c.i) \in 1..Len(st[c.key])
                THEN Val(StrV(st[c.key][Pos(Len(st[c.key]), c.i)])) ELSE None
           [] c.cmd = "lset" -> Val(StrV("OK"))
           [] c.cmd = "sadd" -> IntReply(Cardinality(SeqToSet(c.ws) \ st[c.key]))
           [] c.cmd = "srem" -> IntReply(Cardinality(SeqToSet(c.ws) \cap st[c.key]))
           [] c.cmd = "smembers" -> StrSet(st[c.key])
           [] c.cmd = "sunion" -> StrSet(UnionKeys(st, c.keys))
           [] c.cmd = "sinter" -> StrSet(InterKeys(st, c.keys))
           [] c.cmd = "scard" -> IntReply(Cardinality(st[c.key]))
           [] c.cmd = "delete" ->
                IntReply(IF st[c.key] = (IF c.key = "L" THEN <<>> ELSE {}) THEN 0 ELSE 1)
           [] c.cmd = "sinterstore" -> IntReply(Cardinality(InterKeys(st, c.keys)))
           [] c.cmd = "sdiffstore" -> IntReply(Cardinality(DiffKeys(st, c.keys)))
           [] c.cmd \in {"hsetnx", "hset"} ->
                IntReply(IF st[c.key][c.ws[1]] = <<>> THEN 1 ELSE 0)
           [] c.cmd = "hget" ->
                IF st[c.key][c.ws[1]] = <<>> THEN None
                ELSE Val(StrV(st[c.key][c.ws[1]][1]))
           [] c.cmd = "hmset" -> IntReply(1)
           [] c.cmd = "hdel" -> IntReply(IF st[c.key][c.ws[1]] = <<>> THEN 0 ELSE 1)
           [] c.cmd = "list_pop" -> ListPopReply(st[c.key], c.i)
           [] OTHER -> None

(***************************************************************************)
(* The command router and the typed wrapper.                               *)
(***************************************************************************)
Handles == {"lst", "s", "b", "d"}
Key(h) == CASE h = "lst" -> "L" [] h = "s" -> "S" [] h = "d" -> "D" [] OTHER -> "B"

\* The commands of the redis client that the handles use.
NativeNames ==
    {"rpush", "lpop", "rpop", "lset", "llen", "lrange", "lindex", "sadd", "srem",
     "smembers", "scard", "delete", "sinter", "sunion", "sinterstore", "sdiffstore",
     "hsetnx", "hset", "hmset", "hget", "hdel"}

\* AttributeError(name)
Unsupported(name) == Obj("exc", StrV(name), <<>>, {}, "AttributeError")

\* A lookup that takes every name the client lacks for a script.
ResolveLenient(name) == IF name \in NativeNames THEN "native" ELSE "script"

\* The order of Base._proxy: the client's attribute, then lua_funcs, then the error.
Resolve(name) ==
    IF name \in NativeNames THEN "native"
    ELSE IF IsScript(name) THEN "script"
    ELSE "unsupported"

\* client(): the pipeline when one is set, else the live connection.
\* Base._proxy: a name the client has is a native command and runs on client();
\* any other name is looked up in lua_funcs, whose scripts were registered on the
\* live connection and are called without a client, so they run there at once.
\* A name matching neither raises AttributeError(name) before anything is called.
Route(st, q, act, c) ==
    CASE Resolve(c.cmd) = "native" /\ act ->
           [store |-> st, queue |-> Append(q, c), reply |-> Pipe, sent |-> FALSE]
      [] Resolve(c.cmd) = "unsupported" ->
           [store |-> st, queue |-> q, reply |-> Unsupported(c.cmd), sent |-> FALSE]
      [] OTHER ->
           [store |-> Exec(st, c), queue |-> q, reply |-> Reply(st, c), sent |-> TRUE]

\* self.type(value) for the tags int and float.
Conv(tg, o) ==
    IF o.k # "val" THEN Exc("TypeError")
    ELSE IF tg = "int"
    THEN CASE o.v.t = "int" -> o
           [] o.v.t = "float" -> Val(IntV(o.v.n))
           [] OTHER -> IF IsIntText(o.v.s) THEN Val(IntV(IntOfText(o.v.s)))
                       ELSE Exc("ValueError")
    ELSE CASE o.v.t = "int" -> Val(FloatV(o.v.n))
           [] o.v.t = "float" -> o
           [] OTHER -> IF IsIntText(o.v.s) THEN Val(FloatV(IntOfText(o.v.s)))
                       ELSE IF IsFloatText(o.v.s) THEN Val(FloatV(FloatOfText(o.v.s)))
                       ELSE Exc("ValueError")

\* Iterable._set_type on one element of a reply of the handle's own shape.
SetTypeElem(tg, v) == IF tg \in {"str", "None"} THEN Val(v) ELSE Conv(tg, Val(v))

\* A reply handed back as it arrived, without reconstruction.
SetTypeRaw(tg, kind, o) == o

\* Iterable._set_type.
SetType(tg, kind, o) ==
    IF tg = "str" THEN o
    ELSE IF o.k = kind
    THEN IF kind = "list"
         THEN IF \E i \in 1..Len(o.l) : IsExc(SetTypeElem(tg, o.l[i]))
              THEN Exc("ValueError")
              ELSE ListObj([i \in 1..Len(o.l) |-> SetTypeElem(tg, o.l[i]).v])
         ELSE IF \E v \in o.s : IsExc(SetTypeElem(tg, v))
              THEN Exc("ValueError")
              ELSE SetObj({SetTypeElem(tg, v).v : v \in o.s})
    ELSE IF tg # "None" THEN Conv(tg, o)
    ELSE o

\* The wrapper Iterable._proxy returns: the reply, typed unless it is None.
Wrapper(tg, kind, reply) ==
    IF IsExc(reply) \/ reply = None THEN reply ELSE SetType(tg, kind, reply)

\* A check that adopts the type of every value it sees.
CheckScalarRetag(tg, v) == [tag |-> v.t, err |-> FALSE]

\* Iterable._check_type on a scalar: adopt the type, or compare with the tag.
CheckScalar(tg, v) ==
    IF tg = "None" THEN [tag |-> v.t, err |-> FALSE]
    ELSE [tag |-> tg, err |-> v.t # tg]

\* A check that looks at the first element only.
CheckSeqFirstOnly(tg, xs) ==
    IF xs = <<>> THEN [tag |-> tg, err |-> FALSE] ELSE CheckScalar(tg, Head(xs))

\* Iterable._check_type on a value of the handle's shape: each element in turn;
\* the tag an earlier element set stays when a later element raises.
RECURSIVE CheckSeq(_, _)
CheckSeq(tg, xs) ==
    IF xs = <<>> THEN [tag |-> tg, err |-> FALSE]
    ELSE LET c == CheckScalar(tg, Head(xs))
         IN IF c.err THEN c ELSE CheckSeq(c.tag, Tail(xs))

\* Python 2's len(): __len__'s result coerced to an integer (int kept, float
\* truncated through nb_int), TypeError for anything else.
PyLen(o) ==
    IF IsExc(o) THEN o
    ELSE IF o.k = "val" /\ o.v.t \in {"int", "float"} THEN Val(IntV(o.v.n))
    ELSE Exc("TypeError")

(***************************************************************************)
(* State changes shared by the handlers.                                   *)
(***************************************************************************)
\* The record of the latest call: its arguments and what it returned; `pre` is
\* the list as it was before a pop, `after` the caller's local operands as the
\* call left them.
Last(op, h, args, i, j, sets, ret) ==
    [op |-> op, h |-> h, args |-> args, i |-> i, j |-> j, sets |-> sets, ret |-> ret,
     pre |-> <<>>, after |-> sets]

\* One router call was made: r is what Route returned.
Commit(r) ==
    /\ store' = r.store
    /\ queue' = r.queue
    /\ trips' = IF depth > 0 /\ r.sent THEN trips + 1 ELSE trips

NoCall == UNCHANGED <<store, queue, trips>>

\* While a batch is set or a `with pipeline():` block is open, the model makes
\* at most MaxQueue router calls.
InBound == (~active /\ depth = 0) \/ Len(queue) + trips < MaxQueue

Idle == pc = "idle"

(***************************************************************************)
(* List                                                                    *)
(***************************************************************************)
\* List.extend; List.append(value) is extend([value]).
ExtendCall(op, xs) ==
    /\ Idle /\ InBound
    /\ Len(store.L) + Len(xs) <= MaxLen
    /\ LET chk == CheckSeq(tag.lst, xs)
           r == Route(store, queue, active, Cmd("rpush", "L", 0, 0, EncodeSeq(xs), <<>>))
           w == Wrapper(chk.tag, "list", r.reply)
       IN /\ tag' = [tag EXCEPT !.lst = chk.tag]
          /\ IF chk.err
             THEN NoCall /\ last' = Last(op, "lst", xs, 0, 0, <<>>, Exc("TypeError"))
             ELSE Commit(r)
                  /\ last' = Last(op, "lst", xs, 0, 0, <<>>, IF IsExc(w) THEN w ELSE None)
    /\ UNCHANGED <<active, depth, pc, pending>>

Extend(xs) == ExtendCall("extend", xs)

ListAppend(v) == ExtendCall("append", <<v>>)

\* List.insert; when it puts back what the pop just before it took from the same
\* index, the record keeps the list as it was before that pop.
Insert(i, v) ==
    /\ Idle /\ InBound
    /\ Len(store.L) < MaxLen
    /\ LET chk == CheckScalar(tag.lst, v)
           r == Route(store, queue, active,
                      Cmd("list_insert", "L", i, 0, <<Encode(v)>>, <<>>))
           w == Wrapper(chk.tag, "list", r.reply)
       IN /\ tag' = [tag EXCEPT !.lst = chk.tag]
          /\ IF chk.err
             THEN NoCall /\ last' = Last("insert", "lst", <<v>>, i, 0, <<>>, Exc("TypeError"))
             ELSE Commit(r)
                  /\ last' = [Last("insert", "lst", <<v>>, i, 0, <<>>,
                                   IF IsExc(w) THEN w ELSE None)
                              EXCEPT !.pre = IF last.op = "pop" /\ last.i = i
                                                /\ last.ret = Val(v)
                                             THEN last.pre ELSE <<>>]
    /\ UNCHANGED <<active, depth, pc, pending>>

\* List.__setitem__
SetItem(i, v) ==
    /\ Idle /\ InBound
    /\ LET chk == CheckScalar(tag.lst, v)
           r == Route(store, queue, active, Cmd("lset", "L", i, 0, <<Encode(v)>>, <<>>))
           w == Wrapper(chk.tag, "list", r.reply)
       IN /\ tag' = [tag EXCEPT !.lst = chk.tag]
          /\ IF chk.err
             THEN NoCall
                  /\ last' = Last("setitem", "lst", <<v>>, i, 0, <<>>, Exc("TypeError"))
             ELSE Commit(r)
                  /\ last' = Last("setitem", "lst", <<v>>, i, 0, <<>>,
                                  IF w = Exc("ResponseError") THEN Exc("IndexError")
                                  ELSE IF IsExc(w) THEN w ELSE None)
    /\ UNCHANGED <<active, depth, pc, pending>>

\* A pop that takes index -1 from the head and index 0 from the tail.
PopWrongEnd(i) ==
    /\ Idle /\ InBound
    /\ LET c == IF i = -1 THEN Cmd("lpop", "L", 0, 0, <<>>, <<>>)
                ELSE IF i = 0 THEN Cmd("rpop", "L", 0, 0, <<>>, <<>>)
                ELSE Cmd("list_pop", "L", i, 0, <<>>, <<>>)
           r == Route(store, queue, active, c)
       IN Commit(r) /\ last' = [Last("pop", "lst", <<>>, i, 0, <<>>,
                                     Wrapper(tag.lst, "list", r.reply))
                                EXCEPT !.pre = store.L]
    /\ UNCHANGED <<tag, active, depth, pc, pending>>

\* List.pop
Pop(i) ==
    /\ Idle /\ InBound
    /\ LET c == IF i = -1 THEN Cmd("rpop", "L", 0, 0, <<>>, <<>>)
                ELSE IF i = 0 THEN Cmd("lpop", "L", 0, 0, <<>>, <<>>)
                ELSE Cmd("list_pop", "L", i, 0, <<>>, <<>>)
           r == Route(store, queue, active, c)
       IN Commit(r) /\ last' = [Last("pop", "lst", <<>>, i, 0, <<>>,
                                     Wrapper(tag.lst, "list", r.reply))
                                EXCEPT !.pre = store.L]
    /\ UNCHANGED <<tag, active, depth, pc, pending>>

\* List.reverse
ReverseList ==
    /\ Idle /\ InBound
    /\ LET r == Route(store, queue, active, Cmd("list_reverse", "L", 0, 0, <<>>, <<>>))
           w == Wrapper(tag.lst, "list", r.reply)
       IN Commit(r) /\ last' = Last("reverse", "lst", <<>>, 0, 0, <<>>,
                                    IF IsExc(w) THEN w ELSE None)
    /\ UNCHANGED <<tag, active, depth, pc, pending>>

\* List.__len__, as len(l) sees it.
LenOf(st, tg, q, act) ==
    PyLen(Wrapper(tg, "list", Route(st, q, act, Cmd("llen", "L", 0, 0, <<>>, <<>>)).reply))

LenList ==
    /\ Idle /\ InBound
    /\ Commit(Route(store, queue, active, Cmd("llen", "L", 0, 0, <<>>, <<>>)))
    /\ last' = Last("len", "lst", <<>>, 0, 0, <<>>, LenOf(store, tag.lst, queue, active))
    /\ UNCHANGED <<tag, active, depth, pc, pending>>

\* List.__getitem__ with a slice: a missing bound is read as 0, and the range
\* asked of the store ends at stop - 1.
SliceCmd(hasStart, start, hasStop, stop) ==
    Cmd("lrange", "L", IF hasStart THEN start ELSE 0,
        (IF hasStop THEN stop ELSE 0) - 1, <<>>, <<>>)

SliceOf(st, tg, q, act, hasStart, start, hasStop, stop) ==
    Wrapper(tg, "list", Route(st, q, act, SliceCmd(hasStart, start, hasStop, stop)).reply)

Slice(hasStart, start, hasStop, stop) ==
    /\ Idle /\ InBound
    /\ Commit(Route(store, queue, active, SliceCmd(hasStart, start, hasStop, stop)))
    /\ last' = Last("slice", "lst", <<>>, IF hasStart THEN start ELSE -1,
                    IF hasStop THEN stop ELSE -1, <<>>,
                    SliceOf(store, tag.lst, queue, active, hasStart, start, hasStop, stop))
    /\ UNCHANGED <<tag, active, depth, pc, pending>>

\* List.value: self[:]
ValueOf(st, tg, q, act) == SliceOf(st, tg, q, act, FALSE, 0, FALSE, 0)

ValueList ==
    /\ Idle /\ InBound
    /\ Commit(Route(store, queue, active, SliceCmd(FALSE, 0, FALSE, 0)))
    /\ last' = Last("value", "lst", <<>>, 0, 0, <<>>, ValueOf(store, tag.lst, queue, active))
    /\ UNCHANGED <<tag, active, depth, pc, pending>>

\* List.__getitem__ with an index
GetItem(i) ==
    /\ Idle /\ InBound
    /\ LET r == Route(store, queue, active, Cmd("lindex", "L", i, 0, <<>>, <<>>))
           w == Wrapper(tag.lst, "list", r.reply)
       IN Commit(r) /\ last' = Last("getitem", "lst", <<>>, i, 0, <<>>,
                                    IF w = None THEN Exc("IndexError") ELSE w)
    /\ UNCHANGED <<tag, active, depth, pc, pending>>

(***************************************************************************)
(* Set                                                                     *)
(***************************************************************************)
\* The orders in which a Python set may be iterated.
Perms(vs) ==
    {q \in [1..Cardinality(vs) -> vs] : \A i, j \in 1..Cardinality(vs) : i # j => q[i] # q[j]}

\* One fixed order, for the arguments of a command (the store ignores it).
SetToSeq(vs) == CHOOSE q \in Perms(vs) : TRUE

\* Iterable._check_type(set(value)): the elements in iteration order.
CheckSetOutcomes(tg, vs) == {CheckSeq(tg, q) : q \in Perms(vs)}

\* The type checks of Set._reduce: every operand in turn, as a set.
RECURSIVE CheckOperands(_, _)
CheckOperands(tg, sets) ==
    IF sets = <<>> THEN {[tag |-> tg, err |-> FALSE]}
    ELSE UNION {IF c.err THEN {c} ELSE CheckOperands(c.tag, Tail(sets)) :
                c \in CheckSetOutcomes(tg, Head(sets))}

\* operator.ior, iand and isub on two Python sets.
PyOp(op, a, b) ==
    CASE op = "ior" -> a \cup b
      [] op = "iand" -> a \cap b
      [] OTHER -> a \ b

\* reduce(op, values): left to right, the first operand alone when there is one.
RECURSIVE ReduceFrom(_, _, _)
ReduceFrom(op, acc, sets) ==
    IF sets = <<>> THEN acc ELSE ReduceFrom(op, PyOp(op, acc, Head(sets)), Tail(sets))

Reduce(op, sets) == ReduceFrom(op, Head(sets), Tail(sets))

\* The operands after reduce(op, values): the operators work in place, so with
\* two or more operands the first one holds the result.
AfterReduce(op, sets) ==
    IF Len(sets) >= 2 THEN [sets EXCEPT ![1] = Reduce(op, sets)] ELSE sets

\* Set.update with plain local operands; Set.add(value) is update([value]).
UpdateCall(op, sets) ==
    /\ Idle /\ InBound
    /\ \E chk \in CheckOperands(tag.s, sets) :
         LET ws == SetToSeq(EncodeSet(Reduce("ior", sets)))
             r == Route(store, queue, active, Cmd("sadd", "S", 0, 0, ws, <<>>))
             w == Wrapper(chk.tag, "set", r.reply)
         IN /\ tag' = [tag EXCEPT !.s = chk.tag]
            /\ IF chk.err
               THEN NoCall /\ last' = Last(op, "s", <<>>, 0, 0, sets, Exc("TypeError"))
               ELSE Commit(r)
                    /\ last' = [Last(op, "s", <<>>, 0, 0, sets,
                                     IF IsExc(w) THEN w ELSE None)
                                EXCEPT !.after = AfterReduce("ior", sets)]
    /\ UNCHANGED <<active, depth, pc, pending>>

Update(sets) == UpdateCall("update", sets)

Add(v) == UpdateCall("add", <<{v}>>)

\* Set.remove, and Set.discard, which swallows remove's KeyError.
RemoveCall(op, v) ==
    /\ Idle /\ InBound
    /\ LET chk == CheckScalar(tag.s, v)
           r == Route(store, queue, active, Cmd("srem", "S", 0, 0, <<Encode(v)>>, <<>>))
           w == Wrapper(chk.tag, "set", r.reply)
           absent == w.k = "val" /\ w.v.t \in {"int", "float"} /\ w.v.n = 0
       IN /\ tag' = [tag EXCEPT !.s = chk.tag]
          /\ IF chk.err
             THEN NoCall /\ last' = Last(op, "s", <<v>>, 0, 0, <<>>, Exc("TypeError"))
             ELSE Commit(r)
                  /\ last' = Last(op, "s", <<v>>, 0, 0, <<>>,
                                  IF IsExc(w) THEN w
                                  ELSE IF absent /\ op = "remove" THEN Exc("KeyError")
                                  ELSE None)
    /\ UNCHANGED <<active, depth, pc, pending>>

Remove(v) == RemoveCall("remove", v)

Discard(v) == RemoveCall("discard", v)

\* Set.clear
Clear ==
    /\ Idle /\ InBound
    /\ LET r == Route(store, queue, active, Cmd("delete", "S", 0, 0, <<>>, <<>>))
           w == Wrapper(tag.s, "set", r.reply)
       IN Commit(r) /\ last' = Last("clear", "s", <<>>, 0, 0, <<>>,
                                    IF IsExc(w) THEN w ELSE None)
    /\ UNCHANGED <<tag, active, depth, pc, pending>>

\* Set.value of handle h: smembers through the wrapper.
SetValueOf(st, tg, h) ==
    Wrapper(tg, "set", Reply(st, Cmd("smembers", Key(h), 0, 0, <<>>, <<>>)))

ValueSet ==
    /\ Idle /\ ~active /\ InBound
    /\ Commit(Route(store, queue, active, Cmd("smembers", "S", 0, 0, <<>>, <<>>)))
    /\ last' = Last("value", "s", <<>>, 0, 0, <<>>, SetValueOf(store, tag.s, "s"))
    /\ UNCHANGED <<tag, active, depth, pc, pending>>

\* Set.union, Set.intersection and Set.difference with plain local operands:
\* this set's value is read, then reduced with the operands on the client; the
\* first operand of that reduce is the value just read, not a caller's operand.
AlgebraOf(op, value, sets) ==
    IF IsExc(value) THEN value ELSE SetObj(Reduce(op, <<value.s>> \o sets))

Algebra(name, op, sets) ==
    /\ Idle /\ ~active /\ InBound
    /\ LET value == SetValueOf(store, tag.s, "s")
       IN \E chk \in IF IsExc(value) THEN {[tag |-> tag.s, err |-> FALSE]}
                     ELSE CheckOperands(tag.s, <<value.s>> \o sets) :
            /\ tag' = [tag EXCEPT !.s = chk.tag]
            /\ last' = Last(name, "s", <<>>, 0, 0, sets,
                            IF chk.err THEN Exc("TypeError") ELSE AlgebraOf(op, value, sets))
    /\ Commit(Route(store, queue, active, Cmd("smembers", "S", 0, 0, <<>>, <<>>)))
    /\ UNCHANGED <<active, depth, pc, pending>>

Union(sets) == Algebra("union", "ior", sets)

Intersection(sets) == Algebra("intersection", "iand", sets)

Difference(sets) == Algebra("difference", "isub", sets)

\* Set.intersection_update and Set.difference_update with plain local operands:
\* the operands are reduced among themselves, the result goes to the script.
UpdateScriptCall(name, op, script, sets) ==
    /\ Idle /\ InBound
    /\ \E chk \in CheckOperands(tag.s, sets) :
         LET ws == SetToSeq(EncodeSet(Reduce(op, sets)))
             r == Route(store, queue, active, Cmd(script, "S", 0, 0, ws, <<>>))
             w == Wrapper(chk.tag, "set", r.reply)
         IN /\ tag' = [tag EXCEPT !.s = chk.tag]
            /\ IF chk.err
               THEN NoCall /\ last' = Last(name, "s", <<>>, 0, 0, sets, Exc("TypeError"))
               ELSE Commit(r)
                    /\ last' = [Last(name, "s", <<>>, 0, 0, sets,
                                     IF IsExc(w) THEN w ELSE None)
                                EXCEPT !.after = AfterReduce(op, sets)]
    /\ UNCHANGED <<active, depth, pc, pending>>

IntersectionUpdate(sets) ==
    UpdateScriptCall("intersection_update", "iand", "set_intersection_update", sets)

DifferenceUpdate(sets) ==
    UpdateScriptCall("difference_update", "isub", "set_difference_update", sets)

\* Set.union and Set.intersection of handle h with the other remote Set: one
\* native multi-key command, its reply typed by the tag of h.
OtherSet(h) == IF h = "s" THEN "b" ELSE "s"

RemoteAlgebraOf(st, tg, cmd, h) ==
    Wrapper(tg[h], "set",
            Reply(st, Cmd(cmd, Key(h), 0, 0, <<>>, <<Key(h), Key(OtherSet(h))>>)))

RemoteAlgebra(name, cmd, h) ==
    /\ Idle /\ ~active /\ InBound
    /\ Commit(Route(store, queue, active,
                    Cmd(cmd, Key(h), 0, 0, <<>>, <<Key(h), Key(OtherSet(h))>>)))
    /\ last' = Last(name, h, <<>>, 0, 0, <<>>, RemoteAlgebraOf(store, tag, cmd, h))
    /\ UNCHANGED <<tag, active, depth, pc, pending>>

UnionRemote(h) == RemoteAlgebra("union_remote", "sunion", h)

IntersectionRemote(h) == RemoteAlgebra("intersection_remote", "sinter", h)

\* Set.intersection_update and Set.difference_update with the remote Set b:
\* one native store command whose destination and first source are this set.
StoreCall(name, cmd) ==
    /\ Idle /\ InBound
    /\ LET r == Route(store, queue, active, Cmd(cmd, "S", 0, 0, <<>>, <<"S", "B">>))
           w == Wrapper(tag.s, "set", r.reply)
       IN Commit(r) /\ last' = Last(name, "s", <<>>, 0, 0, <<>>,
                                    IF IsExc(w) THEN w ELSE None)
    /\ UNCHANGED <<tag, active, depth, pc, pending>>

IntersectionUpdateRemote == StoreCall("intersection_update_remote", "sinterstore")

DifferenceUpdateRemote == StoreCall("difference_update_remote", "sdiffstore")

\* Set.update with the remote Set b, first half: b is iterated (its members
\* read and typed by b's tag), each member checked against this set's tag.
UpdateRemoteRead ==
    /\ Idle /\ ~active /\ InBound
    /\ LET value == SetValueOf(store, tag.b, "b")
       IN \E chk \in IF IsExc(value) THEN {[tag |-> tag.s, err |-> FALSE]}
                     ELSE CheckSetOutcomes(tag.s, value.s) :
            /\ tag' = [tag EXCEPT !.s = chk.tag]
            /\ IF IsExc(value) \/ chk.err
               THEN /\ last' = Last("update_remote", "s", <<>>, 0, 0, <<>>,
                                    IF IsExc(value) THEN value ELSE Exc("TypeError"))
                    /\ UNCHANGED <<pc, pending>>
               ELSE /\ pc' = "sadd"
                    /\ pending' = SetToSeq(EncodeSet(value.s))
                    /\ last' = Last("update_remote_read", "s", <<>>, 0, 0, <<>>, value)
    /\ Commit(Route(store, queue, active, Cmd("smembers", "B", 0, 0, <<>>, <<>>)))
    /\ UNCHANGED <<active, depth>>

\* Second half: the members read are sent in one SADD.
UpdateRemoteSend ==
    /\ pc = "sadd"
    /\ LET r == Route(store, queue, active, Cmd("sadd", "S", 0, 0, pending, <<>>))
           w == Wrapper(tag.s, "set", r.reply)
       IN Commit(r) /\ last' = Last("update_remote", "s", <<>>, 0, 0, <<>>,
                                    IF IsExc(w) THEN w ELSE None)
    /\ pc' = "idle"
    /\ pending' = <<>>
    /\ UNCHANGED <<tag, active, depth>>

\* The remote Set b is filled through its own handle.
AddB(v) ==
    /\ Idle /\ ~active /\ InBound
    /\ LET chk == CheckScalar(tag.b, v)
           r == Route(store, queue, active, Cmd("sadd", "B", 0, 0, <<Encode(v)>>, <<>>))
       IN /\ tag' = [tag EXCEPT !.b = chk.tag]
          /\ IF chk.err
             THEN NoCall /\ last' = Last("add", "b", <<v>>, 0, 0, <<>>, Exc("TypeError"))
             ELSE Commit(r) /\ last' = Last("add", "b", <<v>>, 0, 0, <<>>, None)
    /\ UNCHANGED <<active, depth, pc, pending>>

\* Another client of the store adds a member to, or removes one from, the set S.
OtherAdd(w) ==
    /\ store' = [store EXCEPT !.S = @ \cup {w}]
    /\ last' = Last("other_add", "", <<StrV(w)>>, 0, 0, <<>>, None)
    /\ UNCHANGED <<tag, active, queue, depth, trips, pc, pending>>

OtherRemove(w) ==
    /\ store' = [store EXCEPT !.S = @ \ {w}]
    /\ last' = Last("other_remove", "", <<StrV(w)>>, 0, 0, <<>>, None)
    /\ UNCHANGED <<tag, active, queue, depth, trips, pc, pending>>

(***************************************************************************)
(* Any operation name asked of a handle: Base.__getattr__                  *)
(***************************************************************************)
\* l.<name>(i) on the List handle.
Invoke(name, i) ==
    /\ Idle /\ InBound
    /\ LET r == Route(store, queue, active, Cmd(name, "L", i, 0, <<>>, <<>>))
       IN Commit(r) /\ last' = Last("invoke", "lst", <<StrV(name)>>, i, 0, <<>>,
                                    Wrapper(tag.lst, "list", r.reply))
    /\ UNCHANGED <<tag, active, depth, pc, pending>>

(***************************************************************************)
(* The end of a handle's life: Base.__del__                                *)
(***************************************************************************)
Keys == {"L", "S", "B", "D"}

\* What a key that does not exist reads as.
EmptyAt(k) == CASE k = "L" -> <<>> [] k = "D" -> NoFields [] OTHER -> {}

\* A handle that goes away without sending anything.
DisposeSilently(h) ==
    /\ Idle /\ InBound
    /\ NoCall
    /\ last' = Last("dispose", h, <<StrV(Key(h))>>, 0, 0, <<>>, None)
    /\ UNCHANGED <<tag, active, depth, pc, pending>>

\* A second handle on the identifier of handle h (constructed from the key,
\* never written through, so its tag is unset) is garbage-collected:
\* __del__ calls self.delete() through the router.
Dispose(h) ==
    /\ Idle /\ InBound
    /\ LET r == Route(store, queue, active, Cmd("delete", Key(h), 0, 0, <<>>, <<>>))
       IN Commit(r) /\ last' = Last("dispose", h, <<StrV(Key(h))>>, 0, 0, <<>>,
                                    Wrapper("None", "list", r.reply))
    /\ UNCHANGED <<tag, active, depth, pc, pending>>

(***************************************************************************)
(* Dict                                                                    *)
(***************************************************************************)
\* A mapping the caller passes: field names and values in turn.
FlatEncode(m) == [i \in 1..Len(m) |-> IF i % 2 = 1 THEN m[i].s ELSE Encode(m[i])]

\* Dict.update: one HMSET of the whole mapping, which redis-py refuses to send
\* when the mapping is empty.
UpdateDict(op, m) ==
    /\ Idle /\ InBound
    /\ LET r == Route(store, queue, active, Cmd("hmset", "D", 0, 0, FlatEncode(m), <<>>))
           w == Wrapper(tag.d, "dict", r.reply)
       IN IF m = <<>>
          THEN NoCall /\ last' = Last(op, "d", m, 0, 0, <<>>, Exc("DataError"))
          ELSE Commit(r) /\ last' = Last(op, "d", m, 0, 0, <<>>, IF IsExc(w) THEN w ELSE None)
    /\ UNCHANGED <<tag, active, depth, pc, pending>>

DictUpdate(m) == UpdateDict("dict_update", m)

\* Dict.__init__ with a value: the handle is new; update when the value is
\* not empty.
DictInit(m) ==
    /\ last.op = "init"
    /\ IF m = <<>>
       THEN /\ Idle
            /\ last' = Last("dict_init", "d", m, 0, 0, <<>>, None)
            /\ UNCHANGED <<store, tag, active, queue, depth, trips, pc, pending>>
       ELSE UpdateDict("dict_init", m)

\* Dict.setdefault
SetDefault(f, v) ==
    /\ Idle /\ InBound
    /\ LET r == Route(store, queue, active,
                      Cmd("hsetnx", "D", 0, 0, <<f, Encode(v)>>, <<>>))
           w == Wrapper(tag.d, "dict", r.reply)
       IN Commit(r)
          /\ last' = Last("setdefault", "d", <<StrV(f), v>>, 0, 0, <<>>,
                          IF IsExc(w) THEN w
                          ELSE IF w = Val(IntV(1)) THEN Val(v) ELSE None)
    /\ UNCHANGED <<tag, active, depth, pc, pending>>

\* Python's truth value of an object.
Truthy(o) ==
    CASE o.k = "none" -> FALSE
      [] o.k = "val" -> IF o.v.t = "str" THEN o.v.s # "" ELSE o.v.n # 0
      [] o.k = "list" -> o.l # <<>>
      [] o.k = "set" -> o.s # {}
      [] OTHER -> TRUE

\* Dict.get: self.hget(name) or default
GetOf(st, tg, q, act, f, default) ==
    LET w == Wrapper(tg, "dict", Route(st, q, act, Cmd("hget", "D", 0, 0, <<f>>, <<>>)).reply)
    IN IF IsExc(w) THEN w ELSE IF Truthy(w) THEN w ELSE default

DictGet(f, default) ==
    /\ Idle /\ InBound
    /\ Commit(Route(store, queue, active, Cmd("hget", "D", 0, 0, <<f>>, <<>>)))
    /\ last' = Last("dict_get", "d",
                    IF default = None THEN <<StrV(f)>> ELSE <<StrV(f), default.v>>,
                    0, 0, <<>>,
                    GetOf(store, tag.d, queue, active, f, default))
    /\ UNCHANGED <<tag, active, depth, pc, pending>>

\* Dict.__getitem__: KeyError when get gives None; no value is returned otherwise.
DictGetItem(f) ==
    /\ Idle /\ InBound
    /\ Commit(Route(store, queue, active, Cmd("hget", "D", 0, 0, <<f>>, <<>>)))
    /\ LET value == GetOf(store, tag.d, queue, active, f, None)
       IN last' = Last("dict_getitem", "d", <<StrV(f)>>, 0, 0, <<>>,
                       IF IsExc(value) THEN value
                       ELSE IF value = None THEN Exc("KeyError") ELSE None)
    /\ UNCHANGED <<tag, active, depth, pc, pending>>

\* Dict.__setitem__: self.hset(name) passes no value, so the client's
\* hset(name, key, value) raises TypeError before anything is sent.
DictSetItem(f, v) ==
    /\ Idle /\ InBound
    /\ NoCall
    /\ last' = Last("dict_setitem", "d", <<StrV(f), v>>, 0, 0, <<>>, Exc("TypeError"))
    /\ UNCHANGED <<tag, active, depth, pc, pending>>

\* Dict.__delitem__
DictDelItem(f) ==
    /\ Idle /\ InBound
    /\ LET r == Route(store, queue, active, Cmd("hdel", "D", 0, 0, <<f>>, <<>>))
           w == Wrapper(tag.d, "dict", r.reply)
       IN Commit(r) /\ last' = Last("dict_delitem", "d", <<StrV(f)>>, 0, 0, <<>>,
                                    IF IsExc(w) THEN w ELSE None)
    /\ UNCHANGED <<tag, active, depth, pc, pending>>

(***************************************************************************)
(* The batch: `with pipeline():`                                           *)
(***************************************************************************)
\* A command the server refuses when it is queued (no member given): EXEC
\* then discards the whole transaction.
Malformed(c) == c.cmd \in {"rpush", "sadd"} /\ c.ws = <<>>

RECURSIVE ExecAll(_, _)
ExecAll(st, q) == IF q = <<>> THEN st ELSE ExecAll(Exec(st, Head(q)), Tail(q))

RECURSIVE AnyRejected(_, _)
AnyRejected(st, q) ==
    IF q = <<>> THEN FALSE
    ELSE Rejected(st, Head(q)) \/ AnyRejected(Exec(st, Head(q)), Tail(q))

\* Pipeline.execute(): the queued commands in order, as one transaction.
PipelineExecute(st, q) ==
    IF \E i \in 1..Len(q) : Malformed(q[i]) THEN st ELSE ExecAll(st, q)

\* Pipeline.execute() raises when a queued command got an error reply.
PipelineRaises(st, q) == AnyRejected(st, q)

\* pipeline(), up to the yield: a new pipeline object replaces _pipeline.
Enter ==
    /\ Idle
    /\ depth < MaxDepth
    /\ active' = TRUE
    /\ queue' = <<>>
    /\ depth' = depth + 1
    /\ trips' = IF depth = 0 THEN 0 ELSE trips
    /\ last' = Last("enter", "", <<>>, 0, 0, <<>>, None)
    /\ UNCHANGED <<store, tag, pc, pending>>

\* pipeline(), after the yield, when the body ended normally:
\* _pipeline.execute(), then _pipeline = None.
Exit ==
    /\ Idle
    /\ depth > 0
    /\ depth' = depth - 1
    /\ IF active
       THEN /\ store' = PipelineExecute(store, queue)
            /\ queue' = <<>>
            /\ trips' = IF queue = <<>> THEN trips ELSE trips + 1
            /\ active' = PipelineRaises(store, queue)
            /\ last' = Last("exit", "", <<>>, 0, 0, <<>>,
                            IF PipelineRaises(store, queue) THEN Exc("ResponseError")
                            ELSE None)
       ELSE /\ last' = Last("exit", "", <<>>, 0, 0, <<>>, Exc("AttributeError"))
            /\ UNCHANGED <<store, queue, trips, active>>
    /\ UNCHANGED <<tag, pc, pending>>

\* pipeline() when the body raised: the exception is thrown into the generator
\* at the yield, nothing after the yield runs.
HandlerOps ==
    {"extend", "append", "insert", "setitem", "pop", "reverse", "len", "slice", "value",
     "getitem", "update", "add", "remove", "discard", "clear", "union", "intersection",
     "difference", "intersection_update", "difference_update",
     "intersection_update_remote", "difference_update_remote", "update_remote",
     "invoke"}

ExitRaise ==
    /\ Idle
    /\ depth > 0
    /\ last.op \in HandlerOps
    /\ IsExc(last.ret)
    /\ depth' = depth - 1
    /\ last' = Last("exit_raise", "", <<>>, 0, 0, <<>>, last.ret)
    /\ UNCHANGED <<store, tag, active, queue, trips, pc, pending>>

(***************************************************************************)
(* Specifications.                                                         *)
(***************************************************************************)
Init ==
    /\ store = [L |-> <<>>, S |-> {}, B |-> {}, D |-> NoFields]
    /\ tag = [lst |-> "None", s |-> "None", b |-> "None", d |-> "None"]
    /\ active = FALSE
    /\ queue = <<>>
    /\ depth = 0
    /\ trips = 0
    /\ pc = "idle"
    /\ pending = <<>>
    /\ last = Last("init", "", <<>>, 0, 0, <<>>, None)

\* The values and indexes the callers pass.
ListVals == {IntV(1), IntV(2), StrV("a"), FloatV(1)}
TypeVals == {IntV(1), StrV("a")}
SetVals == {IntV(1), IntV(2)}
BatchVals == {IntV(1), StrV("a")}
Wires == {"1", "2"}
RouterNames == {"lindex", "list_pop", "frobnicate"}
DictVals == {IntV(5), StrV(""), StrV("x")}
Defaults == {None, Val(StrV("z"))}
Mappings ==
    {<<>>} \cup {<<StrV(f), v>> : f \in DictFields, v \in DictVals}
           \cup {<<StrV("a"), IntV(5), StrV("b"), StrV("x")>>}
Indexes == (0 - MaxLen)..MaxLen
EndIndexes == {-1, 0, 1}

SeqsUpTo(V, n) == UNION {[1..k -> V] : k \in 0..n}
Operands(V) == UNION {[1..k -> SUBSET V] : k \in 1..MaxOperands}

ListWrites(V, I) ==
    \/ \E xs \in SeqsUpTo(V, MaxLen) : Extend(xs)
    \/ \E v \in V : ListAppend(v)
    \/ \E i \in I, v \in V : Insert(i, v)
    \/ \E i \in I, v \in V : SetItem(i, v)

ListReads(I) ==
    \/ \E i \in I : Pop(i)
    \/ ReverseList
    \/ LenList
    \/ ValueList
    \/ \E i \in I : GetItem(i)

ListSlices ==
    \E hasStart, hasStop \in BOOLEAN, start, stop \in 0..MaxLen :
        /\ hasStart \/ start = 0
        /\ hasStop \/ stop = 0
        /\ Slice(hasStart, start, hasStop, stop)

SetWrites(V) ==
    \/ \E sets \in Operands(V) : Update(sets)
    \/ \E v \in V : Add(v)
    \/ \E v \in V : Remove(v)
    \/ \E v \in V : Discard(v)
    \/ Clear

SetAlgebra(V) ==
    \/ \E sets \in Operands(V) : Union(sets)
    \/ \E sets \in Operands(V) : Intersection(sets)
    \/ \E sets \in Operands(V) : Difference(sets)
    \/ \E sets \in Operands(V) : IntersectionUpdate(sets)
    \/ \E sets \in Operands(V) : DifferenceUpdate(sets)

SetRemote(V) ==
    \/ \E v \in V : AddB(v)
    \/ \E h \in {"s", "b"} : UnionRemote(h)
    \/ \E h \in {"s", "b"} : IntersectionRemote(h)
    \/ IntersectionUpdateRemote
    \/ DifferenceUpdateRemote
    \/ UpdateRemoteRead
    \/ UpdateRemoteSend

Others ==
    \/ \E w \in Wires : OtherAdd(w)
    \/ \E w \in Wires : OtherRemove(w)

Batch ==
    \/ Enter
    \/ Exit
    \/ ExitRaise

\* Every List and Set operation of one process, called directly.
Next ==
    \/ ListWrites(TypeVals, EndIndexes)
    \/ ListReads(EndIndexes)
    \/ SetWrites(TypeVals)
    \/ ValueSet

Spec == Init /\ [][Next]_vars

\* One List handle.
NextList == ListWrites(ListVals, Indexes) \/ ListReads(Indexes) \/ ListSlices

SpecList == Init /\ [][NextList]_vars

\* One Set handle, a second remote Set, and the other clients of the store.
NextSet ==
    SetWrites(SetVals) \/ ValueSet \/ SetAlgebra(SetVals) \/ SetRemote(SetVals) \/ Others

SpecSet == Init /\ [][NextSet]_vars

\* One Dict handle.
NextDict ==
    \/ \E m \in Mappings : DictInit(m)
    \/ \E m \in Mappings : DictUpdate(m)
    \/ \E f \in DictFields, v \in DictVals : SetDefault(f, v)
    \/ \E f \in DictFields, default \in Defaults : DictGet(f, default)
    \/ \E f \in DictFields : DictGetItem(f)
    \/ \E f \in DictFields, v \in DictVals : DictSetItem(f, v)
    \/ \E f \in DictFields : DictDelItem(f)

SpecDict == Init /\ [][NextDict]_vars

\* Operation names asked of a List handle, inside and outside a batch.
NextRouter ==
    \/ Batch
    \/ \E name \in RouterNames, i \in {-1, 0} : Invoke(name, i)
    \/ \E v \in BatchVals : ListAppend(v)

SpecRouter == Init /\ [][NextRouter]_vars

\* Handles that alias the List and the Set are disposed, inside and outside a
\* batch.
NextHandle ==
    \/ Batch
    \/ \E h \in {"lst", "s"} : Dispose(h)
    \/ \E v \in BatchVals : ListAppend(v)
    \/ \E v \in BatchVals : Add(v)

SpecHandle == Init /\ [][NextHandle]_vars

\* The batch context around List and Set operations.
NextBatch ==
    \/ Batch
    \/ \E v \in BatchVals : ListAppend(v)
    \/ \E v \in BatchVals : Insert(0, v)
    \/ \E v \in BatchVals : SetItem(0, v)
    \/ \E i \in {-1, 1} : Pop(i)
    \/ ReverseList
    \/ \E v \in BatchVals : Add(v)
    \/ \E v \in BatchVals : IntersectionUpdate(<<{v}>>)

SpecBatch == Init /\ [][NextBatch]_vars

(***************************************************************************)
(* Properties.                                                             *)
(***************************************************************************)
ListWriteOps == {"extend", "append", "insert", "setitem"}
SetWriteOps == {"add", "update"}

\* C1: while a batch is active every router call, native command or catalog
\* procedure, goes to the batch: the store does not change until the batch
\* closes, and closing applies the queued commands in the order issued.
C1_BatchTakesEveryCall ==
    /\ [][(active /\ last'.op \in HandlerOps) => store' = store]_vars
    /\ [][(active /\ last'.op = "exit" /\ ~IsExc(last'.ret))
            => store' = ExecAll(store, queue)]_vars

\* C2: entering a batch while one is active fails at once and leaves the
\* active batch, with the commands queued on it, as it was.
C2_NestedEnterFails ==
    [][(active /\ last'.op = "enter")
         => (IsExc(last'.ret) /\ active' /\ queue' = queue)]_vars

\* C3: the type tag of a handle is monotonic: once it is a concrete type no
\* operation changes it or unsets it.
C3_TagMonotonic == [][\A h \in Handles : tag[h] # "None" => tag'[h] = tag[h]]_vars

C3_Witness ==
    /\ tag.lst = "int"
    /\ last.op = "append"
    /\ last.args = <<StrV("a")>>
    /\ tag.s = "str"
    /\ store.S = {}

\* C4: on a handle whose tag is fixed, a List append, extend, insert or index
\* write, or a Set add or update, that carries a value of another type raises
\* TypeError and leaves the remote data as it was.
C4_ConflictingWriteRejected ==
    [][/\ (/\ last'.op \in ListWriteOps
           /\ tag.lst # "None"
           /\ \E k \in 1..Len(last'.args) : last'.args[k].t # tag.lst)
          => (last'.ret = Exc("TypeError") /\ store' = store)
       /\ (/\ last'.op \in SetWriteOps
           /\ tag.s # "None"
           /\ \E k \in 1..Len(last'.sets) : \E v \in last'.sets[k] : v.t # tag.s)
          => (last'.ret = Exc("TypeError") /\ store' = store)]_vars

C4_Witness ==
    /\ last.op = "extend"
    /\ last.args = <<IntV(1), StrV("a")>>
    /\ last.ret = Exc("TypeError")
    /\ tag.lst = "int"
    /\ store.L = <<"1">>

\* C5: an operation on a handle whose tag is unset that stores nothing leaves
\* the tag unset.
C5_TagAdoptedOnlyBySuccess ==
    [][/\ (tag.lst = "None" /\ store'.L = store.L) => tag'.lst = "None"
       /\ (tag.s = "None" /\ store'.S = store.S) => tag'.s = "None"]_vars

\* C6: inside a batch an append whose value has the list's type succeeds at
\* the call site and returns None; a batch of n such appends and nothing else
\* makes one round trip, at its close, and leaves the list n elements longer.
OnlyAppends(q) ==
    \A k \in 1..Len(q) : q[k].cmd = "rpush" /\ q[k].key = "L" /\ Len(q[k].ws) = 1

C6_BatchedAppends ==
    /\ []((active /\ last.op = "append" /\ last.args[1].t = tag.lst) => last.ret = None)
    /\ [][(active /\ last'.op = "exit" /\ queue # <<>> /\ OnlyAppends(queue) /\ trips = 0)
            => (trips' = 1 /\ Len(store'.L) = Len(store.L) + Len(queue))]_vars

\* C7: after intersection_update or difference_update with plain local
\* operands the remote membership is the value intersection or difference
\* would have returned, for the same operands, just before the call.
C7_InPlaceAgrees ==
    [][\A f \in {<<"intersection_update", "iand">>, <<"difference_update", "isub">>} :
         (last'.op = f[1] /\ ~IsExc(last'.ret))
           => SetValueOf(store', tag'.s, "s")
                = AlgebraOf(f[2], SetValueOf(store, tag'.s, "s"), last'.sets)]_vars

\* C8: every in-place set operation changes the remote set in one store step,
\* and that step leaves the set equal to the operation applied to the
\* membership the step found, whatever other clients did before or after.
AllOf(sets) == UNION {sets[k] : k \in 1..Len(sets)}
CommonOf(sets) == {v \in AllOf(sets) : \A k \in 1..Len(sets) : v \in sets[k]}

C8_InPlaceAtomic ==
    [][~IsExc(last'.ret) =>
        /\ last'.op = "update" => store'.S = store.S \cup EncodeSet(AllOf(last'.sets))
        /\ last'.op = "intersection_update"
             => store'.S = store.S \cap EncodeSet(CommonOf(last'.sets))
        /\ last'.op = "difference_update"
             => store'.S = store.S \ EncodeSet(AllOf(last'.sets))
        /\ last'.op = "update_remote_read" => store'.S = store.S
        /\ last'.op = "update_remote" => store'.S = store.S \cup store.B
        /\ last'.op = "intersection_update_remote" => store'.S = store.S \cap store.B
        /\ last'.op = "difference_update_remote" => store'.S = store.S \ store.B]_vars

\* C9: extend(xs) on an empty list makes len() the length of xs and the value
\* xs; pop(0) returns the first and pop(-1) the last element, of the tag's
\* type, and the other elements stay in order.
C9_ExtendLenPop ==
    [][LET before == ValueOf(store, tag.lst, queue, active)
           after == ValueOf(store', tag'.lst, queue', active')
       IN /\ (last'.op = "extend" /\ ~IsExc(last'.ret) /\ store.L = <<>>)
             => /\ LenOf(store', tag'.lst, queue', active') = Val(IntV(Len(last'.args)))
                /\ after = ListObj(last'.args)
          /\ (last'.op = "pop" /\ last'.i = 0 /\ store.L # <<>>)
             => /\ last'.ret = Val(Head(before.l))
                /\ last'.ret.v.t = tag.lst
                /\ after = ListObj(Tail(before.l))
          /\ (last'.op = "pop" /\ last'.i = -1 /\ store.L # <<>>)
             => /\ last'.ret = Val(before.l[Len(before.l)])
                /\ last'.ret.v.t = tag.lst
                /\ after = ListObj(SubSeq(before.l, 1, Len(before.l) - 1))]_vars

C9_Witness ==
    /\ last.op = "pop"
    /\ last.i = -1
    /\ last.ret = Val(IntV(1))
    /\ store.L = <<"2">>
    /\ tag.lst = "int"

\* C10: a slice read [start:stop] with both bounds in 0..len returns the
\* elements at positions start..stop-1; an omitted start is 0, an omitted
\* stop the length.
C10_SliceHalfOpen ==
    LET whole == ValueOf(store, tag.lst, queue, active)
        start == IF last.i = -1 THEN 0 ELSE last.i
        stop == IF last.j = -1 THEN Len(whole.l) ELSE last.j
    IN (last.op = "slice" /\ start <= Len(whole.l) /\ stop <= Len(whole.l))
         => last.ret = ListObj(SubSeq(whole.l, start + 1, stop))

\* o is the value the hash stores under field f, as a reply hands it back.
IsStored(st, f, o) == o.k = "val" /\ st.D[f] = <<Encode(o.v)>>

\* C11: Dict.setdefault(field, d) on an absent field stores d and returns d; on
\* a present field it leaves the stored value and returns that stored value.
C11_SetDefault ==
    [][last'.op = "setdefault" =>
         LET f == last'.args[1].s
             d == last'.args[2]
         IN IF store.D[f] = <<>>
            THEN store'.D[f] = <<Encode(d)>> /\ last'.ret = Val(d)
            ELSE store'.D = store.D /\ IsStored(store, f, last'.ret)]_vars

\* C12: for a field that exists, Dict.get and d[field] return the stored value,
\* also when it is empty; only for an absent field does get return the default
\* and d[field] raise KeyError.
C12_ReadPresentField ==
    [][last'.op \in {"dict_get", "dict_getitem"} =>
         LET f == last'.args[1].s
         IN IF store.D[f] # <<>>
            THEN IsStored(store, f, last'.ret)
            ELSE IF last'.op = "dict_getitem" THEN last'.ret = Exc("KeyError")
            ELSE last'.ret = (IF Len(last'.args) = 1 THEN None ELSE Val(last'.args[2]))]_vars


Deleted(k) ==
    /\ store'[k] = EmptyAt(k)
    /\ \A o \in Keys \ {k} : store'[o] = store[o]
    /\ k = "L" => ValueOf(store', tag'.lst, queue', FALSE) = ListObj(<<>>)
    /\ k = "S" => SetValueOf(store', tag'.s, "s") = SetObj({})

\* C15: disposing a handle deletes the data under its identifier by the time
\* dispose returns, also when a live handle aliases the identifier (it then
\* reads an empty collection), and leaves every other identifier unchanged.
C15_DisposeDeletes ==
    [][last'.op = "dispose" => Deleted(last'.args[1].s)]_vars

\* C15, amended: while no batch is set, dispose deletes as above; while a batch
\* is set, the delete is queued on it and the store is unchanged.
C15_DisposeDeletesOutsideBatch ==
    [][last'.op = "dispose" =>
         IF ~active THEN Deleted(last'.args[1].s) /\ queue' = queue
         ELSE /\ store' = store
              /\ queue' = Append(queue, Cmd("delete", last'.args[1].s, 0, 0, <<>>, <<>>))]_vars

\* Outside a batch, an alias of a non-empty list was disposed while the set was
\* not empty.
C15_Witness ==
    /\ last.op = "dispose" /\ last.h = "lst" /\ last.ret = Val(IntV(1))
    /\ ~active /\ store.L = <<>> /\ store.S # {} /\ tag.lst # "None"


\* C16: for the remote Sets s and b, s.union(b) and b.union(s) return the same
\* member set, and so do s.intersection(b) and b.intersection(s), whatever the
\* contents and the tags of the two handles.
C16_RemoteCommutes ==
    \A cmd \in {"sunion", "sinter"} :
        RemoteAlgebraOf(store, tag, cmd, "s") = RemoteAlgebraOf(store, tag, cmd, "b")


\* The types of the values of a mapping given as field names and values in turn.
TypesOf(m) == {m[i].t : i \in {j \in 1..Len(m) : j % 2 = 0}}

\* C17: a Dict infers and enforces its element type per stored value: a write
\* that succeeds leaves the handle tagged with the type of the values written,
\* and a write of a value of another type than the tag (or of values of two
\* types) raises TypeError and stores nothing.
C17_DictTypeEnforced ==
    [][last'.op \in {"dict_init", "dict_update", "dict_setitem"} /\ last'.args # <<>> =>
         /\ ~IsExc(last'.ret) => tag'.d \in TypesOf(last'.args)
         /\ (\/ Cardinality(TypesOf(last'.args)) > 1
             \/ tag.d # "None" /\ TypesOf(last'.args) # {tag.d})
            => last'.ret = Exc("TypeError") /\ store' = store]_vars

\* C18: when control leaves the batch context -- the body ended, the body
\* raised, or executing the queue failed -- no batch is set any more.
C18_BatchClearedOnExit ==
    [][last'.op \in {"exit", "exit_raise"} => ~active']_vars

LocalOperandOps ==
    {"update", "intersection_update", "difference_update",
     "union", "intersection", "difference"}
RemoteOperandOps ==
    {"update_remote_read", "update_remote", "intersection_update_remote",
     "difference_update_remote"}

\* C19: a Set operation leaves the caller's operands alone: every plain local
\* operand holds after the call the members it held before, and a remote Set
\* operand other than the receiver is unchanged.
C19_OperandsUnchanged ==
    [][/\ last'.op \in LocalOperandOps => last'.after = last'.sets
       /\ last'.op \in RemoteOperandOps /\ last'.h = "s" => store'.B = store.B]_vars


=============================================================================
